---- MODULE Spec2Model ----
(***************************************************************************)
(* collect-unmarked-tests (src/src/main.rs): the line-oriented scanner     *)
(* find_python_test_functions, the marker extractor extract_pytest_marker, *)
(* the per-file loop collect_unmarked_tests and the report of main.        *)
(*                                                                         *)
(* Text is modelled character by character: a line is a tuple of           *)
(* one-character strings, a file's content is the tuple of its lines (what *)
(* content.lines() yields).  Indices j, i are the code's 0-based indices;  *)
(* LineAt(k) is lines[k] of the code.  An Option<String> is the set of at  *)
(* most one marker.                                                        *)
(***************************************************************************)
EXTENDS Integers, Sequences, FiniteSets, TLC

VARIABLES
    files,               \* the entries the directory walk yields, in walk order
    exclude_markers,     \* main: the HashSet of excluded markers
    f,                   \* number of walk entries consumed so far
    pc,                  \* position in the program
    lines,               \* find_python_test_functions: lines
    i,                   \* index of the forward scan
    class_markers,       \* Vec<(indent_level, markers)>
    test_functions,      \* Vec<String> of the current file
    j,                   \* index of the backward scan
    brace_depth, paren_depth, bracket_depth,
    class_level_markers, \* markers collected for the class header at i
    has_excluded_marker, \* the flag of the test function at i
    unmarked_tests,      \* collect_unmarked_tests: the collected "path::name"
    stdout, stderr, exit_code,
    decorator_line,      \* argument of a direct call of extract_pytest_marker
    marker               \* its result

vars == <<files, exclude_markers, f, pc, lines, i, class_markers, test_functions,
          j, brace_depth, paren_depth, bracket_depth, class_level_markers,
          has_excluded_marker, unmarked_tests, stdout, stderr, exit_code,
          decorator_line, marker>>

-----------------------------------------------------------------------------
(* Bounds of the checked inputs.                                           *)
MaxLines == 4
MaxFiles == 2
MaxIdLen == 2

-----------------------------------------------------------------------------
(* Characters.                                                             *)

\* char::is_whitespace, restricted to the characters of the inputs
IsSpace(c) == c \in {" ", "\t"}

\* the regex class \w, restricted to ASCII
WordChars ==
    {"a","b","c","d","e","f","g","h","i","j","k","l","m","n","o","p","q","r",
     "s","t","u","v","w","x","y","z","A","B","C","T","0","1","2","_"}

IsWord(c) == c \in WordChars

\* str::trim
Trim(s) ==
    LET keep == {k \in 1..Len(s) : ~IsSpace(s[k])}
    IN  IF keep = {} THEN <<>>
        ELSE LET lo == CHOOSE k \in keep : \A m \in keep : k <= m
                 hi == CHOOSE k \in keep : \A m \in keep : m <= k
             IN  SubSeq(s, lo, hi)

\* str::starts_with('@') and the literal pieces of the regexes, at position p
LitAt(s, p, lit) ==
    /\ p + Len(lit) - 1 <= Len(s)
    /\ \A k \in 1..Len(lit) : s[p + k - 1] = lit[k]

\* length of the longest run of \s (resp. \w) characters of s starting at p
SpaceRun(s, p) ==
    LET stop == {k \in p..Len(s) : ~IsSpace(s[k])}
    IN  IF stop = {} THEN (IF p > Len(s) THEN 0 ELSE Len(s) - p + 1)
        ELSE (CHOOSE k \in stop : \A m \in stop : k <= m) - p

WordRun(s, p) ==
    LET stop == {k \in p..Len(s) : ~IsWord(s[k])}
    IN  IF stop = {} THEN (IF p > Len(s) THEN 0 ELSE Len(s) - p + 1)
        ELSE (CHOOSE k \in stop : \A m \in stop : k <= m) - p

CountChar(s, c) == Cardinality({k \in 1..Len(s) : s[k] = c})

-----------------------------------------------------------------------------
(* The three regular expressions.                                          *)

NoMatch == [matched |-> FALSE, indent |-> 0, name |-> <<>>]

\* ^(\s*)class\s+(\w+)
class_regex(line) ==
    LET n  == SpaceRun(line, 1)
        ws == SpaceRun(line, n + 6)
    IN  IF /\ LitAt(line, n + 1, <<"c","l","a","s","s">>)
           /\ ws >= 1
           /\ WordRun(line, n + 6 + ws) >= 1
        THEN [matched |-> TRUE, indent |-> n,
              name |-> SubSeq(line, n + 6 + ws, n + 5 + ws + WordRun(line, n + 6 + ws))]
        ELSE NoMatch

\* ^(\s*)def\s+(test_\w+)\s*\(
test_fn_regex(line) ==
    LET n  == SpaceRun(line, 1)
        ws == SpaceRun(line, n + 4)
        p  == n + 4 + ws
        w  == WordRun(line, p + 5)
        q  == p + 5 + w
    IN  IF /\ LitAt(line, n + 1, <<"d","e","f">>)
           /\ ws >= 1
           /\ LitAt(line, p, <<"t","e","s","t","_">>)
           /\ w >= 1
           /\ LitAt(line, q + SpaceRun(line, q), <<"(">>)
        THEN [matched |-> TRUE, indent |-> n, name |-> SubSeq(line, p, q - 1)]
        ELSE NoMatch

PytestMark == <<"p","y","t","e","s","t",".","m","a","r","k",".">>

MarkerAt_noPrefix(s, p) ==
    IF WordRun(s, p + 1) >= 1 THEN {SubSeq(s, p + 1, p + WordRun(s, p + 1))} ELSE {}

\* the match of @(?:pytest\.mark\.)?(\w+) attempted at the sigil at position p:
\* the prefix is tried first and given up when no \w follows it
MarkerAt(s, p) ==
    IF LitAt(s, p + 1, PytestMark) /\ WordRun(s, p + 13) >= 1
    THEN {SubSeq(s, p + 13, p + 12 + WordRun(s, p + 13))}
    ELSE IF WordRun(s, p + 1) >= 1
         THEN {SubSeq(s, p + 1, p + WordRun(s, p + 1))}
         ELSE {}

\* extract_pytest_marker: the leftmost match of the (unanchored) regex
extract_pytest_marker(line) ==
    LET hits == {p \in 1..Len(line) : line[p] = "@" /\ MarkerAt(line, p) # {}}
    IN  IF hits = {} THEN {}
        ELSE MarkerAt(line, CHOOSE p \in hits : \A m \in hits : p <= m)

-----------------------------------------------------------------------------
(* find_python_test_functions: helpers of the loop bodies.                 *)

LineAt(k) == lines[k + 1]

Delta_opensOnly(trimmed, open, close) == CountChar(trimmed, open)

\* the `for ch in trimmed.chars()` match: net change of one depth counter
Delta(trimmed, open, close) == CountChar(trimmed, open) - CountChar(trimmed, close)

Balanced_ignored(brace, paren, bracket) == TRUE

Balanced_clamped(brace, paren, bracket) == brace <= 0 /\ paren <= 0 /\ bracket <= 0

\* brace_depth == 0 && paren_depth == 0 && bracket_depth == 0
Balanced(brace, paren, bracket) == brace = 0 /\ paren = 0 /\ bracket = 0

\* trimmed.starts_with('@')
IsDecorator(trimmed) == LitAt(trimmed, 1, <<"@">>)

Retain_le(cm, class_indent) == SelectSeq(cm, LAMBDA e : e[1] <= class_indent)

\* class_markers.retain(|(indent, _)| *indent < class_indent)
Retain(cm, class_indent) == SelectSeq(cm, LAMBDA e : e[1] < class_indent)

UpdateClassMarkers_noRetain(cm, class_indent, found) ==
    IF found # {} THEN Append(cm, <<class_indent, found>>)
    ELSE cm

UpdateClassMarkers_storeEmpty(cm, class_indent, found) ==
    Append(Retain(cm, class_indent), <<class_indent, found>>)

UpdateClassMarkers_retainIfMarked(cm, class_indent, found) ==
    IF found # {} THEN Append(Retain(cm, class_indent), <<class_indent, found>>)
    ELSE cm

\* the update of class_markers at a class header
UpdateClassMarkers(cm, class_indent, found) ==
    IF found # {} THEN Append(Retain(cm, class_indent), <<class_indent, found>>)
    ELSE Retain(cm, class_indent)

\* the orders in which a HashSet may hand out its elements
Orders(S) ==
    {o \in [1..Cardinality(S) -> S] : \A a, b \in 1..Cardinality(S) : a # b => o[a] # o[b]}

\* one iteration order for the marker set of each entry of class_markers
IterationOrders(cm) ==
    {o \in [1..Len(cm) -> UNION {Orders(cm[k][2]) : k \in 1..Len(cm)}] :
        \A k \in 1..Len(cm) : o[k] \in Orders(cm[k][2])}

MarkerLoop_firstOnly(order, excluded) == order # <<>> /\ Head(order) \in excluded

MarkerLoop_oddCount(order, excluded) ==
    Cardinality({k \in 1..Len(order) : order[k] \in excluded}) % 2 = 1

MarkerLoop_emptyExcludes(order, excluded) ==
    order = <<>> \/ \E k \in 1..Len(order) : order[k] \in excluded

\* `for marker in markers { if exclude_markers.contains(marker) { .. break } }`
\* run over the markers in the given order: whether the flag gets set
RECURSIVE MarkerLoop(_, _)
MarkerLoop(order, excluded) ==
    IF order = <<>> THEN FALSE
    ELSE IF Head(order) \in excluded THEN TRUE
         ELSE MarkerLoop(Tail(order), excluded)

ClassCheck_ge(cm, function_indent, excluded, orders) ==
    \E k \in 1..Len(cm) :
        /\ function_indent >= cm[k][1]
        /\ MarkerLoop(orders[k], excluded)

ClassCheck_innermost(cm, function_indent, excluded, orders) ==
    /\ cm # <<>>
    /\ function_indent > cm[Len(cm)][1]
    /\ MarkerLoop(orders[Len(cm)], excluded)

\* the loop over class_markers of a test function: the flag gets set at the
\* first entry of smaller indentation whose markers hold an excluded one
ClassCheck(cm, function_indent, excluded, orders) ==
    \E k \in 1..Len(cm) :
        /\ function_indent > cm[k][1]
        /\ MarkerLoop(orders[k], excluded)

PushTest_twice(tf, excluded, name) ==
    IF excluded THEN tf ELSE Append(Append(tf, name), name)

PushTest_front(tf, excluded, name) == IF excluded THEN tf ELSE <<name>> \o tf

\* `if !has_excluded_marker { test_functions.push(function_name.to_string()) }`
PushTest(tf, excluded, name) == IF excluded THEN tf ELSE Append(tf, name)

\* format!("{}::{}", entry.path().display(), test)
FormatTest(path, test) == path \o <<":", ":">> \o test

\* the lines main writes
Digits == <<"0","1","2","3","4","5","6","7","8","9">>
RECURSIVE Decimal(_)
Decimal(n) == IF n < 10 THEN <<Digits[n + 1]>>
              ELSE Decimal(n \div 10) \o <<Digits[(n % 10) + 1]>>
FoundLine_files(n) == <<"Found ">> \o Decimal(Len(files)) \o <<" unmarked test(s):">>

FoundLine(n) == <<"Found ">> \o Decimal(n) \o <<" unmarked test(s):">>
TestLine(test) == <<" ", " ">> \o test
NoneFoundLine == <<"No unmarked tests found.">>

-----------------------------------------------------------------------------
(* collect_unmarked_tests: the loop over the walk's entries.               *)

ReadEntry_keepClassMarkers ==
    /\ pc = "walk"
    /\ f < Len(files)
    /\ files[f + 1].readable
    /\ f' = f + 1
    /\ lines' = files[f + 1].content
    /\ test_functions' = <<>>
    /\ i' = 0
    /\ pc' = "lines"
    /\ UNCHANGED <<files, exclude_markers, class_markers, j, brace_depth, paren_depth,
                   bracket_depth, class_level_markers, has_excluded_marker,
                   unmarked_tests, stdout, stderr, exit_code, decorator_line, marker>>

\* read_to_string succeeds: find_python_test_functions starts on the content
ReadEntry ==
    /\ pc = "walk"
    /\ f < Len(files)
    /\ files[f + 1].readable
    /\ f' = f + 1
    /\ lines' = files[f + 1].content
    /\ test_functions' = <<>>
    /\ class_markers' = <<>>
    /\ i' = 0
    /\ pc' = "lines"
    /\ UNCHANGED <<files, exclude_markers, j, brace_depth, paren_depth, bracket_depth,
                   class_level_markers, has_excluded_marker, unmarked_tests,
                   stdout, stderr, exit_code, decorator_line, marker>>

\* read_to_string fails: the entry is passed over
SkipUnreadable ==
    /\ pc = "walk"
    /\ f < Len(files)
    /\ ~files[f + 1].readable
    /\ f' = f + 1
    /\ UNCHANGED <<files, exclude_markers, pc, lines, i, class_markers, test_functions,
                   j, brace_depth, paren_depth, bracket_depth, class_level_markers,
                   has_excluded_marker, unmarked_tests, stdout, stderr, exit_code,
                   decorator_line, marker>>

-----------------------------------------------------------------------------
(* find_python_test_functions: the forward scan.                           *)

\* a class header: the backward scan for its decorators starts
MatchClass ==
    /\ pc = "lines"
    /\ i < Len(lines)
    /\ class_regex(LineAt(i)).matched
    /\ j' = i
    /\ brace_depth' = 0 /\ paren_depth' = 0 /\ bracket_depth' = 0
    /\ class_level_markers' = {}
    /\ pc' = "class_scan"
    /\ UNCHANGED <<files, exclude_markers, f, lines, i, class_markers, test_functions,
                   has_excluded_marker, unmarked_tests, stdout, stderr, exit_code,
                   decorator_line, marker>>

\* one iteration of `while j > 0` of the class header's backward scan
ClassScanStep ==
    /\ pc = "class_scan"
    /\ j > 0
    /\ j' = j - 1
    /\ LET trimmed == Trim(LineAt(j - 1))
           brace   == brace_depth + Delta(trimmed, "{", "}")
           paren   == paren_depth + Delta(trimmed, "(", ")")
           bracket == bracket_depth + Delta(trimmed, "[", "]")
       IN  IF trimmed = <<>>
           THEN UNCHANGED <<brace_depth, paren_depth, bracket_depth,
                            class_level_markers, pc>>
           ELSE /\ brace_depth' = brace
                /\ paren_depth' = paren
                /\ bracket_depth' = bracket
                /\ IF IsDecorator(trimmed)
                   THEN /\ class_level_markers' =
                               class_level_markers \cup extract_pytest_marker(trimmed)
                        /\ pc' = pc
                   ELSE /\ class_level_markers' = class_level_markers
                        /\ pc' = IF Balanced(brace, paren, bracket)
                                 THEN "class_update" ELSE pc
    /\ UNCHANGED <<files, exclude_markers, f, lines, i, class_markers, test_functions,
                   has_excluded_marker, unmarked_tests, stdout, stderr, exit_code,
                   decorator_line, marker>>

\* after the backward scan (left by break, or by j = 0): retain, push, continue
ClassUpdate ==
    /\ pc = "class_update" \/ (pc = "class_scan" /\ j = 0)
    /\ class_markers' = UpdateClassMarkers(class_markers, class_regex(LineAt(i)).indent,
                                           class_level_markers)
    /\ i' = i + 1
    /\ pc' = "lines"
    /\ UNCHANGED <<files, exclude_markers, f, lines, test_functions, j, brace_depth,
                   paren_depth, bracket_depth, class_level_markers,
                   has_excluded_marker, unmarked_tests, stdout, stderr, exit_code,
                   decorator_line, marker>>

\* a test-function header: the class entries are checked; unless one of them
\* excludes the function, the backward scan for its own decorators starts
MatchTestFn ==
    /\ pc = "lines"
    /\ i < Len(lines)
    /\ ~class_regex(LineAt(i)).matched
    /\ test_fn_regex(LineAt(i)).matched
    /\ \E orders \in IterationOrders(class_markers) :
         LET byClass == ClassCheck(class_markers, test_fn_regex(LineAt(i)).indent,
                                   exclude_markers, orders)
         IN
           /\ has_excluded_marker' = byClass
           /\ IF byClass
              THEN /\ pc' = "fn_excluded"
                   /\ UNCHANGED <<j, brace_depth, paren_depth, bracket_depth>>
              ELSE /\ pc' = "fn_scan"
                   /\ j' = i
                   /\ brace_depth' = 0 /\ paren_depth' = 0 /\ bracket_depth' = 0
    /\ UNCHANGED <<files, exclude_markers, f, lines, i, class_markers, test_functions,
                   class_level_markers, unmarked_tests, stdout, stderr, exit_code,
                   decorator_line, marker>>

FnScanStep_blankStops ==
    /\ pc = "fn_scan"
    /\ j > 0
    /\ j' = j - 1
    /\ LET trimmed == Trim(LineAt(j - 1))
           brace   == brace_depth + Delta(trimmed, "{", "}")
           paren   == paren_depth + Delta(trimmed, "(", ")")
           bracket == bracket_depth + Delta(trimmed, "[", "]")
       IN  /\ brace_depth' = brace
           /\ paren_depth' = paren
           /\ bracket_depth' = bracket
           /\ IF IsDecorator(trimmed)
              THEN IF extract_pytest_marker(trimmed) \cap exclude_markers # {}
                   THEN has_excluded_marker' = TRUE /\ pc' = "fn_done"
                   ELSE UNCHANGED <<has_excluded_marker, pc>>
              ELSE /\ has_excluded_marker' = has_excluded_marker
                   /\ pc' = IF Balanced(brace, paren, bracket)
                            THEN "fn_done" ELSE pc
    /\ UNCHANGED <<files, exclude_markers, f, lines, i, class_markers, test_functions,
                   class_level_markers, unmarked_tests, stdout, stderr, exit_code,
                   decorator_line, marker>>

FnScanStep_stopsAtFirstSigil ==
    /\ pc = "fn_scan"
    /\ j > 0
    /\ j' = j - 1
    /\ LET trimmed == Trim(LineAt(j - 1))
           brace   == brace_depth + Delta(trimmed, "{", "}")
           paren   == paren_depth + Delta(trimmed, "(", ")")
           bracket == bracket_depth + Delta(trimmed, "[", "]")
       IN  IF trimmed = <<>>
           THEN UNCHANGED <<brace_depth, paren_depth, bracket_depth,
                            has_excluded_marker, pc>>
           ELSE /\ brace_depth' = brace
                /\ paren_depth' = paren
                /\ bracket_depth' = bracket
                /\ IF IsDecorator(trimmed)
                   THEN /\ has_excluded_marker' =
                              (extract_pytest_marker(trimmed) \cap exclude_markers # {})
                        /\ pc' = "fn_done"
                   ELSE /\ has_excluded_marker' = has_excluded_marker
                        /\ pc' = IF Balanced(brace, paren, bracket)
                                 THEN "fn_done" ELSE pc
    /\ UNCHANGED <<files, exclude_markers, f, lines, i, class_markers, test_functions,
                   class_level_markers, unmarked_tests, stdout, stderr, exit_code,
                   decorator_line, marker>>

\* one iteration of `while j > 0` of the test function's backward scan
FnScanStep ==
    /\ pc = "fn_scan"
    /\ j > 0
    /\ j' = j - 1
    /\ LET trimmed == Trim(LineAt(j - 1))
           brace   == brace_depth + Delta(trimmed, "{", "}")
           paren   == paren_depth + Delta(trimmed, "(", ")")
           bracket == bracket_depth + Delta(trimmed, "[", "]")
       IN  IF trimmed = <<>>
           THEN UNCHANGED <<brace_depth, paren_depth, bracket_depth,
                            has_excluded_marker, pc>>
           ELSE /\ brace_depth' = brace
                /\ paren_depth' = paren
                /\ bracket_depth' = bracket
                /\ IF IsDecorator(trimmed)
                   THEN IF extract_pytest_marker(trimmed) \cap exclude_markers # {}
                        THEN has_excluded_marker' = TRUE /\ pc' = "fn_done"
                        ELSE UNCHANGED <<has_excluded_marker, pc>>
                   ELSE /\ has_excluded_marker' = has_excluded_marker
                        /\ pc' = IF Balanced(brace, paren, bracket)
                                 THEN "fn_done" ELSE pc
    /\ UNCHANGED <<files, exclude_markers, f, lines, i, class_markers, test_functions,
                   class_level_markers, unmarked_tests, stdout, stderr, exit_code,
                   decorator_line, marker>>

\* `if !has_excluded_marker { test_functions.push(..) }`, then the next line
FnDone ==
    /\ pc \in {"fn_done", "fn_excluded"} \/ (pc = "fn_scan" /\ j = 0)
    /\ test_functions' = PushTest(test_functions, has_excluded_marker,
                                  test_fn_regex(LineAt(i)).name)
    /\ i' = i + 1
    /\ pc' = "lines"
    /\ UNCHANGED <<files, exclude_markers, f, lines, class_markers, j, brace_depth,
                   paren_depth, bracket_depth, class_level_markers,
                   has_excluded_marker, unmarked_tests, stdout, stderr, exit_code,
                   decorator_line, marker>>

OtherLine_dedent ==
    /\ pc = "lines"
    /\ i < Len(lines)
    /\ ~class_regex(LineAt(i)).matched
    /\ ~test_fn_regex(LineAt(i)).matched
    /\ i' = i + 1
    /\ class_markers' = Retain(class_markers, SpaceRun(LineAt(i), 1))
    /\ UNCHANGED <<files, exclude_markers, f, pc, lines, test_functions,
                   j, brace_depth, paren_depth, bracket_depth, class_level_markers,
                   has_excluded_marker, unmarked_tests, stdout, stderr, exit_code,
                   decorator_line, marker>>

\* a line matching neither pattern
OtherLine ==
    /\ pc = "lines"
    /\ i < Len(lines)
    /\ ~class_regex(LineAt(i)).matched
    /\ ~test_fn_regex(LineAt(i)).matched
    /\ i' = i + 1
    /\ UNCHANGED <<files, exclude_markers, f, pc, lines, class_markers, test_functions,
                   j, brace_depth, paren_depth, bracket_depth, class_level_markers,
                   has_excluded_marker, unmarked_tests, stdout, stderr, exit_code,
                   decorator_line, marker>>

\* the forward scan is over: test_functions is returned and the caller pushes
\* one "path::name" per name
ReturnTests ==
    /\ pc = "lines"
    /\ i = Len(lines)
    /\ unmarked_tests' = unmarked_tests \o
           [k \in 1..Len(test_functions) |-> FormatTest(files[f].path, test_functions[k])]
    /\ pc' = "walk"
    /\ UNCHANGED <<files, exclude_markers, f, lines, i, class_markers, test_functions,
                   j, brace_depth, paren_depth, bracket_depth, class_level_markers,
                   has_excluded_marker, stdout, stderr, exit_code, decorator_line, marker>>

-----------------------------------------------------------------------------
(* main: the report.                                                       *)

ReportNone ==
    /\ pc = "walk"
    /\ f = Len(files)
    /\ unmarked_tests = <<>>
    /\ stdout' = Append(stdout, NoneFoundLine)
    /\ exit_code' = 0
    /\ pc' = "exit"
    /\ UNCHANGED <<files, exclude_markers, f, lines, i, class_markers, test_functions,
                   j, brace_depth, paren_depth, bracket_depth, class_level_markers,
                   has_excluded_marker, unmarked_tests, stderr, decorator_line, marker>>

ReportUnmarked ==
    /\ pc = "walk"
    /\ f = Len(files)
    /\ unmarked_tests # <<>>
    /\ stderr' = stderr \o <<FoundLine(Len(unmarked_tests))>> \o
           [k \in 1..Len(unmarked_tests) |-> TestLine(unmarked_tests[k])]
    /\ exit_code' = 1
    /\ pc' = "exit"
    /\ UNCHANGED <<files, exclude_markers, f, lines, i, class_markers, test_functions,
                   j, brace_depth, paren_depth, bracket_depth, class_level_markers,
                   has_excluded_marker, unmarked_tests, stdout, decorator_line, marker>>

-----------------------------------------------------------------------------
(* A direct call of extract_pytest_marker (as in test_extract_pytest_marker). *)

Extract ==
    /\ pc = "extract"
    /\ marker' = extract_pytest_marker(decorator_line)
    /\ pc' = "extracted"
    /\ UNCHANGED <<files, exclude_markers, f, lines, i, class_markers, test_functions,
                   j, brace_depth, paren_depth, bracket_depth, class_level_markers,
                   has_excluded_marker, unmarked_tests, stdout, stderr, exit_code,
                   decorator_line>>

-----------------------------------------------------------------------------
(* Inputs.                                                                 *)

\* all tuples over S of length at most n
RECURSIVE SeqsUpTo(_, _)
SeqsUpTo(S, n) ==
    IF n = 0 THEN {<<>>}
    ELSE LET shorter == SeqsUpTo(S, n - 1)
         IN  shorter \cup {Append(s, x) : s \in {t \in shorter : Len(t) = n - 1}, x \in S}

BlankLine == <<>>
MarkU     == <<" ","@","p","y","t","e","s","t",".","m","a","r","k",".","u">>
OpenP     == <<"@","p","(","u">>
CloseP    == <<")">>
CodeU     == <<"u">>
ClassA    == <<"c","l","a","s","s"," ","A",":">>
ClassB    == <<" ","c","l","a","s","s"," ","B",":">>
DefB      == <<" ","d","e","f"," ","t","e","s","t","_","b","(",")",":">>
DefC      == <<" "," ","d","e","f"," ","t","e","s","t","_","c","(",")",":">>
MarkP     == <<" ","@","p">>

\* the lines of the texts that exercise the backward scan: blank lines,
\* decorators on one and on several lines, ordinary code, a class, a method
ScanLines == {BlankLine, MarkU, OpenP, CloseP, CodeU, ClassA, DefB}

\* the lines of the texts that exercise the class scopes: a decorator, classes
\* and test functions at three indentation levels
ScopeLines == {MarkU, ClassA, ClassB, DefB, DefC}

\* a method of a marked class nested in a marked class
NestedTexts == {<<MarkU, ClassA, MarkP, ClassB, DefC>>}

\* the scanned texts
Texts == SeqsUpTo(ScanLines, MaxLines) \cup SeqsUpTo(ScopeLines, MaxLines) \cup NestedTexts

\* the contents of the files of a multi-file run
SampleFiles ==
    {<<MarkU, ClassA, DefB>>, <<MarkU, ClassA>>, <<DefB>>, <<DefC, DefB>>,
     <<OpenP>>, <<CloseP, DefB>>, <<MarkU, DefB>>,
     <<MarkU, OpenP, CloseP, ClassA, DefB>>, <<DefB, DefB>>}

U == <<"u">>
P == <<"p">>

\* the excluded marker sets of a single-file run, and of a multi-file run
ExcludedSets == {{U}, {U, P}}
AllExcludedSets == SUBSET {U, P}

\* the path of the k-th walk entry: d/x.py, d/xx.py, ...
Path(k) == <<"d", "/">> \o [n \in 1..k |-> "x"] \o <<".", "p", "y">>

Unreadable == [readable |-> FALSE, content |-> <<>>]
Readable(content) == [readable |-> TRUE, content |-> content]
Entry(k, file) == [path |-> Path(k), readable |-> file.readable, content |-> file.content]

IdleLocals ==
    /\ f = 0
    /\ lines = <<>>
    /\ i = 0
    /\ class_markers = <<>>
    /\ test_functions = <<>>
    /\ j = 0
    /\ brace_depth = 0 /\ paren_depth = 0 /\ bracket_depth = 0
    /\ class_level_markers = {}
    /\ has_excluded_marker = FALSE
    /\ unmarked_tests = <<>>
    /\ stdout = <<>> /\ stderr = <<>>
    /\ exit_code = -1

\* a run of main on a directory holding one file
Init ==
    /\ \E file \in {Unreadable} \cup {Readable(c) : c \in Texts} :
           files = <<Entry(1, file)>>
    /\ exclude_markers \in ExcludedSets
    /\ pc = "walk"
    /\ IdleLocals
    /\ decorator_line = <<>> /\ marker = {}

\* a run of main on a directory holding up to MaxFiles files
InitMain ==
    /\ \E fs \in SeqsUpTo({Unreadable} \cup {Readable(c) : c \in SampleFiles}, MaxFiles) :
           files = [k \in 1..Len(fs) |-> Entry(k, fs[k])]
    /\ exclude_markers \in AllExcludedSets
    /\ pc = "walk"
    /\ IdleLocals
    /\ decorator_line = <<>> /\ marker = {}

IdChars == {"u", "_", "1"}
Idents == SeqsUpTo(IdChars, MaxIdLen) \ {<<>>}
Suffixes == {<<>>, <<"(">>, <<"(","x",",","[","1","]",")">>, <<" ","u">>}
Bare(x, suffix) == <<"@">> \o x \o suffix
Namespaced(x, suffix) == <<"@">> \o PytestMark \o x \o suffix
NoIdentLines == {<<"@">>, <<"@","(">>, <<"@"," ","u">>, <<"@",".","u">>,
                 <<"@","(","@","u">>}

\* a direct call of extract_pytest_marker
InitExtract ==
    /\ decorator_line \in {Bare(x, s) : x \in Idents, s \in Suffixes}
                          \cup {Namespaced(x, s) : x \in Idents, s \in Suffixes}
                          \cup NoIdentLines
    /\ marker = {}
    /\ pc = "extract"
    /\ files = <<>>
    /\ exclude_markers = {}
    /\ IdleLocals

Next ==
    \/ ReadEntry \/ SkipUnreadable
    \/ MatchClass \/ ClassScanStep \/ ClassUpdate
    \/ MatchTestFn \/ FnScanStep \/ FnDone
    \/ OtherLine \/ ReturnTests
    \/ ReportNone \/ ReportUnmarked

Spec == Init /\ [][Next]_vars
SpecMain == InitMain /\ [][Next]_vars
SpecExtract == InitExtract /\ [][Extract]_vars

-----------------------------------------------------------------------------
(* What the claims speak of, stated on a text `ls` by position (1-based)   *)
(* and not by the scan's steps.                                            *)

IsClassLine(ls, k) == class_regex(ls[k]).matched
IsTestLine(ls, k)  == ~IsClassLine(ls, k) /\ test_fn_regex(ls[k]).matched
IndentOf(ls, k) ==
    IF IsClassLine(ls, k) THEN class_regex(ls[k]).indent ELSE test_fn_regex(ls[k]).indent

IsBlankLine(ls, k) == Trim(ls[k]) = <<>>
IsSigilLine(ls, k) == ~IsBlankLine(ls, k) /\ Trim(ls[k])[1] = "@"

\* occurrences of character c in the lines a..b
RECURSIVE Occurrences(_, _, _, _)
Occurrences(ls, a, b, c) ==
    IF a > b THEN 0 ELSE CountChar(ls[a], c) + Occurrences(ls, a + 1, b, c)

\* the lines a..b hold as many opening as closing delimiters of each kind
SpanBalanced(ls, a, b) ==
    /\ Occurrences(ls, a, b, "(") = Occurrences(ls, a, b, ")")
    /\ Occurrences(ls, a, b, "[") = Occurrences(ls, a, b, "]")
    /\ Occurrences(ls, a, b, "{") = Occurrences(ls, a, b, "}")

\* line m ends the decorator block above the header at h: it is ordinary code
\* (not blank, no sigil) and the delimiters of m..h-1 are balanced
EndsBlock(ls, h, m) ==
    ~IsBlankLine(ls, m) /\ ~IsSigilLine(ls, m) /\ SpanBalanced(ls, m, h - 1)

\* the decorator lines of the header at h: the sigil lines above it with no
\* block end in between
DecoratorLines(ls, h) ==
    {m \in 1..(h - 1) : IsSigilLine(ls, m) /\ \A n \in (m + 1)..(h - 1) : ~EndsBlock(ls, h, n)}

\* the markers of the header at h: the identifier after the sigil of each
\* decorator line
MarkersOf(ls, h) ==
    UNION {extract_pytest_marker(Trim(ls[m])) : m \in DecoratorLines(ls, h)}

\* the class at c encloses the line at h of indentation n: it is earlier, less
\* indented, and no class header between them is at its indentation or shallower
Encloses(ls, c, h, n) ==
    /\ c < h
    /\ IsClassLine(ls, c)
    /\ IndentOf(ls, c) < n
    /\ \A d \in (c + 1)..(h - 1) : IsClassLine(ls, d) => IndentOf(ls, d) > IndentOf(ls, c)

EffectiveMarkers(ls, h) ==
    MarkersOf(ls, h) \cup
    UNION {MarkersOf(ls, c) : c \in {c \in 1..(h - 1) : Encloses(ls, c, h, IndentOf(ls, h))}}

\* the names of the test-function headers among the first n lines that carry
\* no excluded effective marker, in the order of their lines
RECURSIVE UnmarkedNames(_, _, _)
UnmarkedNames(ls, excluded, n) ==
    IF n = 0 THEN <<>>
    ELSE IF IsTestLine(ls, n) /\ EffectiveMarkers(ls, n) \cap excluded = {}
         THEN Append(UnmarkedNames(ls, excluded, n - 1), test_fn_regex(ls[n]).name)
         ELSE UnmarkedNames(ls, excluded, n - 1)

-----------------------------------------------------------------------------
(* C1: when the forward scan has passed the last line, test_functions      *)
(* lists exactly the test-function headers of the text none of whose       *)
(* effective markers (own decorators, and decorators of every enclosing    *)
(* class) is excluded, each once.                                          *)
C1_ReportedIffUnmarked ==
    (pc = "lines" /\ i = Len(lines)) =>
        test_functions = UnmarkedNames(lines, exclude_markers, Len(lines))

\* a finished scan that reported one header and dropped another, which has no
\* excluded marker of its own but inherits one from its class
C1_Witness ==
    /\ pc = "lines" /\ i = Len(lines) /\ Len(test_functions) = 1
    /\ \E h \in 1..Len(lines) :
           /\ IsTestLine(lines, h)
           /\ MarkersOf(lines, h) \cap exclude_markers = {}
           /\ EffectiveMarkers(lines, h) \cap exclude_markers # {}

-----------------------------------------------------------------------------
\* the header at h lies in the scope of a class decorated with an excluded marker
InExcludedScope(ls, h, excluded) ==
    \E c \in 1..(h - 1) :
        /\ Encloses(ls, c, h, IndentOf(ls, h))
        /\ MarkersOf(ls, c) \cap excluded # {}

(* C2: a test function inside the scope of a class decorated with an       *)
(* excluded marker (more indented than the class, no class header at the   *)
(* class's indentation or shallower in between) is decided excluded by the *)
(* class check alone and is not pushed, whatever its own decorators; a     *)
(* test function outside every such scope is not excluded by the class     *)
(* check, and is pushed unless its own decorators exclude it.              *)
C2_ClassScope ==
    [][/\ (pc = "lines" /\ pc' \in {"fn_scan", "fn_excluded"}) =>
            /\ has_excluded_marker' = InExcludedScope(lines, i + 1, exclude_markers)
            /\ has_excluded_marker' = (pc' = "fn_excluded")
       /\ (pc \in {"fn_scan", "fn_done", "fn_excluded"} /\ pc' = "lines") =>
            IF InExcludedScope(lines, i + 1, exclude_markers)
            THEN test_functions' = test_functions
            ELSE MarkersOf(lines, i + 1) \cap exclude_markers = {} =>
                     test_functions' = Append(test_functions, test_fn_regex(LineAt(i)).name)
      ]_vars

\* an undecorated method of a marked class has just been excluded by the class
\* check, after an earlier method at the class's own indentation was reported
C2_Witness ==
    /\ pc = "fn_excluded" /\ has_excluded_marker
    /\ InExcludedScope(lines, i + 1, exclude_markers)
    /\ MarkersOf(lines, i + 1) = {}
    /\ \E h \in 1..i : IsTestLine(lines, h) /\ ~InExcludedScope(lines, h, exclude_markers)
    /\ Len(test_functions) = 1

-----------------------------------------------------------------------------
\* the lines a..b are one multi-line decorator call: a sigil line that opens a
\* delimiter, continuation lines without sigil while the call is open (the
\* delimiters of m..b are unbalanced for every later line m), and the line b
\* that closes it, so that a..b is balanced
DecoratorUnit(ls, a, b) ==
    /\ 1 <= a /\ a < b /\ b <= Len(ls)
    /\ IsSigilLine(ls, a)
    /\ ~IsBlankLine(ls, b)
    /\ \A m \in (a + 1)..b : ~IsSigilLine(ls, m) /\ ~SpanBalanced(ls, m, b)
    /\ SpanBalanced(ls, a, b)

\* the identifiers that directly follow a sigil (after the optional
\* pytest.mark. prefix) somewhere in the lines above the header at h
SigilMarkers(ls, h) ==
    UNION {UNION {MarkerAt(Trim(ls[m]), p) :
                    p \in {q \in 1..Len(Trim(ls[m])) : Trim(ls[m])[q] = "@"}} :
             m \in 1..(h - 1)}

\* the sigil lines directly above line a (only sigil or blank lines in between)
SigilLinesAbove(ls, a) ==
    {m \in 1..(a - 1) : IsSigilLine(ls, m) /\
                        \A n \in (m + 1)..(a - 1) : IsSigilLine(ls, n) \/ IsBlankLine(ls, n)}

ClassScanEnded == pc = "class_update" \/ (pc = "class_scan" /\ j = 0)
\* the backward scan of the test function at i is over
FnScanEnded == pc = "fn_done" \/ (pc = "fn_scan" /\ j = 0)

(* C3: when a multi-line decorator call with balanced delimiters stands     *)
(* directly above a class or test-function header, the backward scan does   *)
(* not end on its continuation lines or its closing line; the markers of    *)
(* the call's own sigil line and of the sigil lines directly above the call *)
(* are found; and every marker the scan takes directly follows a sigil, so  *)
(* an identifier that only occurs in an argument list is never taken.       *)
C3_MultiLineUnit ==
    /\ (ClassScanEnded \/ FnScanEnded) =>
          \A a \in 1..i :
              DecoratorUnit(lines, a, i) =>
                  /\ (pc \in {"class_update", "fn_done"} /\ ~has_excluded_marker)
                         => j + 1 \notin (a + 1)..i
                  /\ \A m \in SigilLinesAbove(lines, a) \cup {a} :
                         IF ClassScanEnded
                         THEN extract_pytest_marker(Trim(lines[m])) \subseteq class_level_markers
                         ELSE extract_pytest_marker(Trim(lines[m])) \cap exclude_markers # {}
                                  => has_excluded_marker
    /\ ClassScanEnded => class_level_markers \subseteq SigilMarkers(lines, i + 1)
    /\ (FnScanEnded /\ has_excluded_marker) =>
          SigilMarkers(lines, i + 1) \cap exclude_markers # {}

\* the scan of a class header has passed a two-line call "@p(u" ... ")" and
\* found the marker of the sigil line above it; u, excluded, occurs in the
\* argument list too
C3_Witness ==
    /\ pc = "class_scan" /\ j = 0
    /\ \E a \in 2..i : /\ DecoratorUnit(lines, a, i)
                       /\ IsSigilLine(lines, a - 1)
                       /\ lines[a] = OpenP
    /\ class_level_markers = {U, P}
    /\ U \in exclude_markers

-----------------------------------------------------------------------------
(* C4: the output is in order of appearance.  Within one run of            *)
(* find_python_test_functions the forward index i never goes back, and     *)
(* test_functions changes only by appending, at its end, the name of the   *)
(* header on the current line, as i moves past that line; it is never      *)
(* reordered.  (A new run starts from the empty list at line 0.)           *)
C4_OrderOfAppearance ==
    [][\/ pc = "walk" /\ pc' = "lines" /\ test_functions' = <<>> /\ i' = 0
       \/ test_functions' = test_functions /\ i' \in {i, i + 1}
       \/ /\ IsTestLine(lines, i + 1)
          /\ i' = i + 1
          /\ test_functions' = Append(test_functions, test_fn_regex(LineAt(i)).name)
      ]_vars

\* test_c stands above test_b in the text and before it in the returned list
C4_Witness ==
    /\ pc = "lines" /\ i = Len(lines)
    /\ test_functions = << <<"t","e","s","t","_","c">>, <<"t","e","s","t","_","b">> >>
    /\ \E a, b \in 1..Len(lines) : a < b /\ lines[a] = DefC /\ lines[b] = DefB

-----------------------------------------------------------------------------
(* C5: for every identifier x, extract_pytest_marker returns x both for    *)
(* "@pytest.mark.x" and for "@x", with or without text after x (call       *)
(* arguments); and it returns nothing for a line in which no sigil is      *)
(* directly followed by an identifier character.                           *)
C5_SameMarkerBothForms ==
    pc = "extracted" =>
        /\ \A x \in Idents, suffix \in Suffixes :
               decorator_line \in {Bare(x, suffix), Namespaced(x, suffix)} => marker = {x}
        /\ (\A p \in 1..Len(decorator_line) :
                decorator_line[p] = "@" =>
                    (p = Len(decorator_line) \/ ~IsWord(decorator_line[p + 1])))
           => marker = {}

\* the namespaced form with call arguments has yielded the identifier u_
C5_Witness ==
    /\ pc = "extracted"
    /\ decorator_line = Namespaced(<<"u", "_">>, <<"(","x",",","[","1","]",")">>)
    /\ marker = {<<"u", "_">>}

-----------------------------------------------------------------------------
\* the unmarked tests of the first n walk entries, as (path, name) pairs in
\* walk order and, within a file, in line order
RECURSIVE ExpectedTests(_)
ExpectedTests(n) ==
    IF n = 0 THEN <<>>
    ELSE IF ~files[n].readable THEN ExpectedTests(n - 1)
         ELSE LET names == UnmarkedNames(files[n].content, exclude_markers,
                                         Len(files[n].content))
              IN  ExpectedTests(n - 1) \o
                  [k \in 1..Len(names) |-> [path |-> files[n].path, name |-> names[k]]]

(* C6: the program ends with exit code 0, having printed the confirmation  *)
(* line to standard output and nothing to standard error, exactly when no  *)
(* unmarked test was collected; otherwise it ends with exit code 1, having *)
(* printed nothing to standard output and, to standard error, a count line *)
(* with the number of unmarked tests followed by one line                  *)
(* "  <path>::<name>" per unmarked test.  Nothing is written before.       *)
C6_ExitAndReport ==
    IF pc # "exit"
    THEN exit_code = -1 /\ stdout = <<>> /\ stderr = <<>>
    ELSE LET tests == ExpectedTests(Len(files))
             n     == Len(tests)
         IN  /\ Len(unmarked_tests) = n
             /\ exit_code = (IF unmarked_tests = <<>> THEN 0 ELSE 1)
             /\ unmarked_tests = <<>> =>
                    stdout = << <<"No unmarked tests found.">> >> /\ stderr = <<>>
             /\ unmarked_tests # <<>> =>
                    /\ stdout = <<>>
                    /\ Len(stderr) = n + 1
                    /\ stderr[1] = <<"Found ">> \o Decimal(n) \o <<" unmarked test(s):">>
                    /\ \A k \in 1..n :
                           stderr[k + 1] =
                               <<" ", " ">> \o tests[k].path \o <<":", ":">> \o tests[k].name

\* exit code 1 after a count line "Found 2 ..." and two test lines, one per file
C6_Witness ==
    /\ pc = "exit" /\ exit_code = 1
    /\ Len(stderr) = 3
    /\ stderr[1][2] = "2"
    /\ stderr[2] = <<" ", " ">> \o Path(1) \o <<":", ":">> \o <<"t","e","s","t","_","b">>
    /\ stderr[3] = <<" ", " ">> \o Path(2) \o <<":", ":">> \o <<"t","e","s","t","_","b">>

-----------------------------------------------------------------------------
\* a backward scan was left by `break` on the line at index j
ClassScanBroke == pc = "class_update"
FnScanBroke == pc = "fn_done"

\* the line at index j is not blank, has no sigil, and all three depth counters
\* are zero
AtBlockEnd ==
    /\ Trim(LineAt(j)) # <<>>
    /\ ~IsDecorator(Trim(LineAt(j)))
    /\ brace_depth = 0 /\ paren_depth = 0 /\ bracket_depth = 0

\* the line at index j has a sigil followed by an excluded marker
AtExcludedMarker ==
    /\ IsDecorator(Trim(LineAt(j)))
    /\ extract_pytest_marker(Trim(LineAt(j))) \cap exclude_markers # {}

\* what is left to do in the current run of find_python_test_functions:
\* lexicographically, the lines not yet passed, the stage within the current
\* line, and the lines the backward scan can still visit
Remaining ==
    LET stage == CASE pc = "lines" -> 2
                   [] pc \in {"class_scan", "fn_scan"} -> 1
                   [] OTHER -> 0
    IN  ((Len(lines) - i) * 3 + stage) * (Len(lines) + 1)
        + (IF pc \in {"class_scan", "fn_scan"} THEN j ELSE 0)

InFile == {"lines", "class_scan", "class_update", "fn_scan", "fn_done", "fn_excluded"}

\* the part of C7 that does not speak of where a scan stops
C7_Progress ==
    /\ [](pc \in InFile =>
            /\ 0 <= i /\ i <= Len(lines)
            /\ pc # "lines" => (0 <= j /\ j <= i /\ i < Len(lines))
            /\ Remaining >= 0)
    /\ [](pc = "lines" /\ i = Len(lines) /\ (\A h \in 1..Len(lines) : ~IsTestLine(lines, h))
            => test_functions = <<>>)
    /\ [][(pc \in {"class_scan", "fn_scan"}) =>
            ((j > 0 /\ j' = j - 1) \/ (j = 0 /\ pc' = "lines"))]_vars
    /\ [][(pc \in InFile /\ pc' \in InFile) => Remaining' < Remaining]_vars
    /\ [][(pc \in InFile /\ pc' \notin InFile) => (pc = "lines" /\ i = Len(lines))]_vars

(* C7, as claimed: find_python_test_functions is total (no line access out *)
(* of range, every step makes progress, the backward index goes down by    *)
(* one per step and not below 0, the forward scan ends after the last line *)
(* with a result, empty when nothing matches), and a backward scan left by *)
(* break stands at index 0 or on a non-blank line without sigil with all   *)
(* three depths at zero.                                                   *)
C7_AsClaimed ==
    /\ C7_Progress
    /\ []((ClassScanBroke \/ FnScanBroke) => (j = 0 \/ AtBlockEnd))

(* C7, amended: as above, but a backward scan left by break stands on a    *)
(* non-blank line without sigil with all three depths at zero or, in the   *)
(* scan of a test function only, on a sigil line whose marker is excluded  *)
(* (the function is then excluded); and in either case no line passed      *)
(* before it ended the decorator block.                                    *)
C7_Total ==
    /\ C7_Progress
    /\ [](ClassScanBroke => AtBlockEnd)
    /\ [](FnScanBroke => IF has_excluded_marker THEN AtExcludedMarker ELSE AtBlockEnd)
    /\ []((pc \in {"class_scan", "class_update"} \/ FnScanBroke \/ pc = "fn_scan") =>
            \A n \in (j + 2)..i : ~EndsBlock(lines, i + 1, n))

\* the scan of a test function was left on a sigil line above index 0, whose
\* marker is excluded
C7_Witness ==
    /\ FnScanBroke /\ has_excluded_marker
    /\ j > 0 /\ j < i - 1
    /\ AtExcludedMarker

-----------------------------------------------------------------------------
\* the names collected for the k-th walk entry: the entries of unmarked_tests
\* that start with its path and "::", without that prefix
ReportedFor(k) ==
    LET prefix == files[k].path \o <<":", ":">>
        own    == SelectSeq(unmarked_tests, LAMBDA t : LitAt(t, 1, prefix))
    IN  [n \in 1..Len(own) |-> SubSeq(own[n], Len(prefix) + 1, Len(own[n]))]

(* C8: two runs of find_python_test_functions in the same process on the   *)
(* same text and the same excluded set return the same names in the same   *)
(* order, whatever the first run left behind; and the class check of a     *)
(* test function gives the same answer for every order in which the       *)
(* marker sets are iterated.                                               *)
C8_SameInputSameOutput ==
    /\ pc = "exit" =>
          \A a, b \in 1..Len(files) :
              (files[a].readable /\ files[b].readable
                  /\ files[a].content = files[b].content)
              => ReportedFor(a) = ReportedFor(b)
    /\ (pc = "lines" /\ i < Len(lines) /\ IsTestLine(lines, i + 1)) =>
          \A o1, o2 \in IterationOrders(class_markers) :
              ClassCheck(class_markers, test_fn_regex(LineAt(i)).indent, exclude_markers, o1)
              = ClassCheck(class_markers, test_fn_regex(LineAt(i)).indent, exclude_markers, o2)

\* the second of two runs on the same text stands at a method of a class
\* whose two markers can be iterated in two orders, one of them excluded
C8_Witness ==
    /\ pc = "lines" /\ f = 2
    /\ files[1].content = files[2].content
    /\ i < Len(lines) /\ IsTestLine(lines, i + 1)
    /\ Len(class_markers) = 1 /\ class_markers[1][2] = {U, P}
    /\ exclude_markers = {P}
    /\ unmarked_tests = <<>>

(* C9: each file is analysed on its own.  A run of                         *)
(* find_python_test_functions starts with an empty class-scope list and an *)
(* empty result at line 0, every backward scan starts with its three depth *)
(* counters at zero, and the names collected for a file are those its own  *)
(* content and the excluded set determine, whatever files were visited     *)
(* before it and in whatever order.                                        *)
C9_FilesIndependent ==
    /\ [](pc = "exit" =>
            \A k \in 1..Len(files) :
                ReportedFor(k) =
                    IF files[k].readable
                    THEN UnmarkedNames(files[k].content, exclude_markers,
                                       Len(files[k].content))
                    ELSE <<>>)
    /\ [][(pc = "walk" /\ pc' = "lines") =>
            (class_markers' = <<>> /\ test_functions' = <<>> /\ i' = 0
             /\ lines' = files[f'].content)]_vars
    /\ [][(pc = "lines" /\ pc' \in {"class_scan", "fn_scan"}) =>
            (brace_depth' = 0 /\ paren_depth' = 0 /\ bracket_depth' = 0 /\ j' = i)]_vars

\* a method is reported for the second file although the first file ended
\* inside a class marked with an excluded marker
C9_Witness ==
    /\ pc = "exit" /\ Len(files) >= 2
    /\ files[1].readable /\ files[1].content = <<MarkU, ClassA>>
    /\ files[2].readable /\ files[2].content = <<DefB>>
    /\ U \in exclude_markers
    /\ ReportedFor(2) = << <<"t","e","s","t","_","b">> >>

-----------------------------------------------------------------------------
\* the leading whitespace of line k, whatever the line is
Indentation(ls, k) == SpaceRun(ls[k], 1)

\* no class header among the lines c+1..n is at the indentation of the class
\* at c or shallower
NotClosed(ls, c, n) ==
    \A d \in (c + 1)..n : IsClassLine(ls, d) => IndentOf(ls, d) > IndentOf(ls, c)

\* the (indentation, markers) pairs of the lines of S among the first k lines,
\* in line order
RECURSIVE Entries(_, _, _)
Entries(ls, S, k) ==
    IF k = 0 THEN <<>>
    ELSE IF k \in S
         THEN Append(Entries(ls, S, k - 1), <<IndentOf(ls, k), MarkersOf(ls, k)>>)
         ELSE Entries(ls, S, k - 1)

\* C10 as stated: before the line at i is looked at, class_markers holds
\* exactly the classes seen so far that are less indented than that line and
\* not closed by a later class header at the same or shallower indentation
C10_AsClaimed ==
    (pc = "lines" /\ i < Len(lines)) =>
        class_markers =
            Entries(lines,
                    {c \in 1..i : /\ IsClassLine(lines, c)
                                  /\ IndentOf(lines, c) < Indentation(lines, i + 1)
                                  /\ NotClosed(lines, c, i)},
                    i)

(* C10: at every point of the forward scan class_markers holds, in line    *)
(* order, exactly the classes seen so far that carry at least one marker   *)
(* and have not been closed by a later class header at the same or         *)
(* shallower indentation.  Entries leave the list at class headers only,   *)
(* whatever the indentation of the current line.                           *)
C10_ActiveClassEntries ==
    pc = "lines" =>
        class_markers =
            Entries(lines,
                    {c \in 1..i : /\ IsClassLine(lines, c)
                                  /\ MarkersOf(lines, c) # {}
                                  /\ NotClosed(lines, c, i)},
                    i)

\* the forward scan has closed one marked class at a shallower class header
\* and holds the marked class that closed it
C10_Witness ==
    /\ pc = "lines"
    /\ Len(class_markers) = 1
    /\ \E c \in 1..i : /\ IsClassLine(lines, c)
                       /\ MarkersOf(lines, c) # {}
                       /\ ~NotClosed(lines, c, i)

-----------------------------------------------------------------------------
(* C11: when the forward scan has finished a class header at indentation   *)
(* c, every entry of indentation >= c is gone from class_markers, the      *)
(* entries of indentation < c are kept unchanged and in their order, and   *)
(* the entry (c, markers of the class's decorators) is appended iff that   *)
(* marker set is non-empty; entries are removed also when it is empty.     *)
C11_ClassHeaderUpdate ==
    [][(pc \in {"class_scan", "class_update"} /\ pc' = "lines") =>
          LET c    == IndentOf(lines, i + 1)
              m    == MarkersOf(lines, i + 1)
              kept == SelectSeq(class_markers, LAMBDA e : e[1] < c)
          IN  /\ i' = i + 1
              /\ class_markers' = IF m # {} THEN kept \o << <<c, m>> >> ELSE kept]_vars

\* a class header without markers has just removed the entry of a marked class
\* at deeper indentation
C11_Witness ==
    /\ pc = "lines" /\ i >= 2
    /\ IsClassLine(lines, i) /\ MarkersOf(lines, i) = {}
    /\ class_markers = <<>>
    /\ \E c \in 1..(i - 1) : /\ IsClassLine(lines, c)
                             /\ MarkersOf(lines, c) # {}
                             /\ IndentOf(lines, c) > IndentOf(lines, i)

(* C12: only class headers change class_markers.  Within a file, a step    *)
(* that changes the list is the update at the end of a class header's      *)
(* scan; a test-function header or a line matching neither pattern leaves  *)
(* it as it is, whatever its indentation; and a line matching the class    *)
(* pattern is never taken as a test-function header.                       *)
C12_OnlyClassHeadersChangeScopes ==
    /\ [][(pc # "walk" /\ class_markers' # class_markers) =>
            (pc \in {"class_scan", "class_update"}
             /\ class_regex(LineAt(i)).matched)]_vars
    /\ [][(pc = "lines" /\ i < Len(lines) /\ ~class_regex(LineAt(i)).matched
             /\ i' = i + 1) =>
            class_markers' = class_markers]_vars
    /\ [][((pc = "lines" /\ pc' \in {"fn_scan", "fn_excluded"})
             \/ test_functions' # test_functions) =>
            (~class_regex(LineAt(i)).matched /\ test_fn_regex(LineAt(i)).matched)]_vars

\* the scan has passed a test-function header and a line matching neither
\* pattern that is no deeper than the stored class, and the entry is still there
C12_Witness ==
    /\ pc = "lines" /\ i >= 3
    /\ Len(class_markers) = 1
    /\ IsTestLine(lines, i - 1)
    /\ ~IsClassLine(lines, i) /\ ~IsTestLine(lines, i)
    /\ Indentation(lines, i) <= class_markers[1][1]

-----------------------------------------------------------------------------
InScan == pc \in {"class_scan", "fn_scan"}
ScanLeftByBreak == pc \in {"class_update", "fn_done"}

\* openers minus closers of one kind in the lines a backward scan has passed
NetDepth(open, close) ==
    Occurrences(lines, j + 1, i, open) - Occurrences(lines, j + 1, i, close)

\* the parts of C13 about the depth counters and about lines without sigil:
\* each counter is the plain difference of openers and closers passed so far,
\* of either sign; a non-blank line without sigil ends the scan iff all three
\* are zero after it has been counted, and no marker is taken from it
C13_DepthsAndCodeLines ==
    /\ []((InScan \/ ScanLeftByBreak) =>
            /\ paren_depth = NetDepth("(", ")")
            /\ bracket_depth = NetDepth("[", "]")
            /\ brace_depth = NetDepth("{", "}"))
    /\ [][(InScan /\ j > 0 /\ Trim(LineAt(j - 1)) # <<>>
             /\ ~IsDecorator(Trim(LineAt(j - 1)))) =>
            /\ ScanLeftByBreak' <=>
                  (paren_depth' = 0 /\ bracket_depth' = 0 /\ brace_depth' = 0)
            /\ class_level_markers' = class_level_markers
            /\ has_excluded_marker' = has_excluded_marker]_vars

\* C13 as stated: in addition, a line that begins with the sigil never ends
\* the scan
C13_AsClaimed ==
    /\ C13_DepthsAndCodeLines
    /\ [][(InScan /\ j > 0 /\ IsDecorator(Trim(LineAt(j - 1)))) =>
            ~ScanLeftByBreak']_vars

(* C13, amended: in a backward decorator scan each depth counter is the    *)
(* difference of the openers and closers passed so far, never clamped; a   *)
(* non-blank line without sigil ends the scan iff all three counters are   *)
(* zero after counting it, and otherwise is a continuation from which no   *)
(* marker is taken; a line with the sigil never ends the scan of a class   *)
(* header, and ends the scan of a test function iff its marker is          *)
(* excluded, in both cases whatever the depths.                            *)
C13_StopRule ==
    /\ C13_DepthsAndCodeLines
    /\ [][(InScan /\ j > 0 /\ IsDecorator(Trim(LineAt(j - 1)))) =>
            (ScanLeftByBreak' <=>
                (pc = "fn_scan"
                 /\ extract_pytest_marker(Trim(LineAt(j - 1))) \cap exclude_markers # {}))]_vars

\* a scan has gone on past a line without sigil that left a counter negative,
\* and then past a sigil line
C13_Witness ==
    /\ InScan /\ j + 2 <= i
    /\ IsDecorator(Trim(LineAt(j)))
    /\ Trim(LineAt(j + 1)) # <<>> /\ ~IsDecorator(Trim(LineAt(j + 1)))
    /\ Occurrences(lines, j + 2, i, "(") < Occurrences(lines, j + 2, i, ")")

-----------------------------------------------------------------------------
(* find_python_test_functions as a function of the text and the excluded   *)
(* set, computed as the code computes it; jj is the value of j at the top  *)
(* of `while j > 0`, so the line read is lines[jj - 1], the jj-th line.    *)

\* the backward scan of a class header: the markers it collects
RECURSIVE ClassScan(_, _, _, _, _, _)
ClassScan(ls, jj, brace, paren, bracket, found) ==
    IF jj = 0 THEN found
    ELSE LET trimmed == Trim(ls[jj])
             b == brace + Delta(trimmed, "{", "}")
             p == paren + Delta(trimmed, "(", ")")
             k == bracket + Delta(trimmed, "[", "]")
         IN  IF trimmed = <<>>
             THEN ClassScan(ls, jj - 1, brace, paren, bracket, found)
             ELSE IF IsDecorator(trimmed)
                  THEN ClassScan(ls, jj - 1, b, p, k,
                                 found \cup extract_pytest_marker(trimmed))
                  ELSE IF Balanced(b, p, k) THEN found
                       ELSE ClassScan(ls, jj - 1, b, p, k, found)

\* the backward scan of a test function: whether it sets has_excluded_marker
RECURSIVE FnScan(_, _, _, _, _, _)
FnScan(ls, jj, brace, paren, bracket, excluded) ==
    IF jj = 0 THEN FALSE
    ELSE LET trimmed == Trim(ls[jj])
             b == brace + Delta(trimmed, "{", "}")
             p == paren + Delta(trimmed, "(", ")")
             k == bracket + Delta(trimmed, "[", "]")
         IN  IF trimmed = <<>>
             THEN FnScan(ls, jj - 1, brace, paren, bracket, excluded)
             ELSE IF IsDecorator(trimmed)
                  THEN IF extract_pytest_marker(trimmed) \cap excluded # {} THEN TRUE
                       ELSE FnScan(ls, jj - 1, b, p, k, excluded)
                  ELSE IF Balanced(b, p, k) THEN FALSE
                       ELSE FnScan(ls, jj - 1, b, p, k, excluded)

\* one order of iteration for each entry (the class check gives the same
\* answer for all of them, see C8)
SomeOrders(cm) == CHOOSE orders \in IterationOrders(cm) : TRUE

\* one round of `for (i, line) in lines.iter().enumerate()`: class_markers and
\* test_functions after the line of index ii, from their values before it
ForwardStep(ls, excluded, ii, prev) ==
    LET cls == class_regex(ls[ii + 1])
        fn  == test_fn_regex(ls[ii + 1])
    IN  IF cls.matched
        THEN [prev EXCEPT !.class_markers =
                 UpdateClassMarkers(@, cls.indent, ClassScan(ls, ii, 0, 0, 0, {}))]
        ELSE IF fn.matched
             THEN LET byClass == ClassCheck(prev.class_markers, fn.indent, excluded,
                                            SomeOrders(prev.class_markers))
                      has_excluded == byClass \/ FnScan(ls, ii, 0, 0, 0, excluded)
                  IN  [prev EXCEPT !.test_functions = PushTest(@, has_excluded, fn.name)]
             ELSE prev

\* class_markers and test_functions after the first n lines
RECURSIVE ForwardScan(_, _, _)
ForwardScan(ls, excluded, n) ==
    IF n = 0 THEN [class_markers |-> <<>>, test_functions |-> <<>>]
    ELSE ForwardStep(ls, excluded, n - 1, ForwardScan(ls, excluded, n - 1))

find_python_test_functions(ls, excluded) ==
    ForwardScan(ls, excluded, Len(ls)).test_functions

-----------------------------------------------------------------------------
\* the text without its blank lines
StripBlank(ls) == SelectSeq(ls, LAMBDA l : Trim(l) # <<>>)

AtReturn == pc = "lines" /\ i = Len(lines)

(* C14: blank lines are transparent.  The names returned for a text are    *)
(* the names find_python_test_functions gives for the text with all its    *)
(* blank lines removed; so two texts that differ only in blank lines, put  *)
(* in or taken out at any place, have the same output.                     *)
C14_BlankLinesTransparent ==
    AtReturn =>
        find_python_test_functions(StripBlank(lines), exclude_markers) = test_functions

\* a finished scan that dropped a header because of an excluded marker on a
\* decorator line separated from it by a blank line
C14_Witness ==
    /\ AtReturn
    /\ test_functions = <<>>
    /\ \E h \in 3..Len(lines) :
          /\ IsTestLine(lines, h)
          /\ IsBlankLine(lines, h - 1)
          /\ IsSigilLine(lines, h - 2)
          /\ MarkersOf(lines, h) \cap exclude_markers # {}

-----------------------------------------------------------------------------
\* the variant of the update at a class header that stores every class
StoreEveryClass(cm, class_indent, found) ==
    Append(Retain(cm, class_indent), <<class_indent, found>>)

\* one round of the variant's forward scan: as ForwardStep on lines that are
\* not class headers, and StoreEveryClass on class headers
StoreAllStep(ls, excluded, ii, prev) ==
    LET cls == class_regex(ls[ii + 1])
    IN  IF cls.matched
        THEN [prev EXCEPT !.class_markers =
                 StoreEveryClass(@, cls.indent, ClassScan(ls, ii, 0, 0, 0, {}))]
        ELSE ForwardStep(ls, excluded, ii, prev)

RECURSIVE StoreAllScan(_, _, _)
StoreAllScan(ls, excluded, n) ==
    IF n = 0 THEN [class_markers |-> <<>>, test_functions |-> <<>>]
    ELSE StoreAllStep(ls, excluded, n - 1, StoreAllScan(ls, excluded, n - 1))

(* C15: not storing classes without markers is unobservable.  When the     *)
(* scan returns, the variant that stores every class has the same names in *)
(* the same order, and the list of the implementation is the variant's     *)
(* list without its entries with an empty marker set.                      *)
C15_StoringEmptySetsUnobservable ==
    AtReturn =>
        LET variant == StoreAllScan(lines, exclude_markers, Len(lines))
        IN  /\ variant.test_functions = test_functions
            /\ SelectSeq(variant.class_markers, LAMBDA e : e[2] # {}) = class_markers

\* a finished scan with a reported function inside a class without markers
\* that closed a marked class: the variant holds an entry, the code none
C15_Witness ==
    /\ AtReturn
    /\ class_markers = <<>>
    /\ test_functions # <<>>
    /\ StoreAllScan(lines, exclude_markers, Len(lines)).class_markers = << <<0, {}>> >>
    /\ \E c \in 1..Len(lines) : IsClassLine(lines, c) /\ MarkersOf(lines, c) # {}

-----------------------------------------------------------------------------
\* the scan of a class header, resp. of a test function, is over
ClassScanOver == pc = "class_update" \/ (pc = "class_scan" /\ j = 0)
FnScanOver == pc = "fn_done" \/ (pc = "fn_scan" /\ j = 0)

\* the marker set the full scan collects above the header on the current line
FullScanMarkers == ClassScan(lines, i, 0, 0, 0, {})

(* C16: the function-level check, which leaves its scan at the first sigil *)
(* line with an excluded marker, decides "excluded" for exactly the        *)
(* functions for which the full scan (the one run for class headers),      *)
(* started above the same header, collects a marker set that meets the     *)
(* excluded set.                                                           *)
C16_EarlyExitEquivalent ==
    /\ ClassScanOver => class_level_markers = FullScanMarkers
    /\ FnScanOver => (has_excluded_marker <=> FullScanMarkers \cap exclude_markers # {})

\* the function-level scan was left early on an excluded marker, above the
\* first line, where the full scan would go on and collect a second marker
C16_Witness ==
    /\ pc = "fn_done" /\ has_excluded_marker /\ j > 0
    /\ Cardinality(FullScanMarkers) >= 2

-----------------------------------------------------------------------------
(* C17: nested classes.  The update at a class header of indentation c     *)
(* leaves every entry of indentation < c in its place, so that several     *)
(* entries are active at once; a test function is excluded by the class    *)
(* check iff some entry of indentation strictly less than its own holds an *)
(* excluded marker, whatever the entries of the classes nested deeper      *)
(* hold; and a function so excluded is not reported.                       *)
C17_NestedClasses ==
    /\ [][(pc \in {"class_scan", "class_update"} /\ pc' = "lines") =>
            \A k \in 1..Len(class_markers) :
                class_markers[k][1] < class_regex(LineAt(i)).indent =>
                    (k <= Len(class_markers') /\ class_markers'[k] = class_markers[k])]_vars
    /\ [][(pc = "lines" /\ pc' \in {"fn_scan", "fn_excluded"}) =>
            ((pc' = "fn_excluded" /\ has_excluded_marker') <=>
                \E k \in 1..Len(class_markers) :
                    /\ class_markers[k][1] < test_fn_regex(LineAt(i)).indent
                    /\ class_markers[k][2] \cap exclude_markers # {})]_vars
    /\ [][pc = "fn_excluded" => (test_functions' = test_functions /\ i' = i + 1)]_vars

\* a method of a nested class is excluded through the entry of the outer
\* class, the nested class holding a marker that is not excluded
C17_Witness ==
    /\ pc = "fn_excluded"
    /\ Len(class_markers) = 2
    /\ class_markers[1][1] < class_markers[2][1]
    /\ class_markers[2][1] < test_fn_regex(LineAt(i)).indent
    /\ class_markers[1][2] \cap exclude_markers # {}
    /\ class_markers[2][2] # {} /\ class_markers[2][2] \cap exclude_markers = {}

-----------------------------------------------------------------------------
\* a is b with some of its elements left out, the others in their order
RECURSIVE IsSubsequence(_, _)
IsSubsequence(a, b) ==
    IF a = <<>> THEN TRUE
    ELSE IF b = <<>> THEN FALSE
         ELSE IF Head(a) = Head(b) THEN IsSubsequence(Tail(a), Tail(b))
              ELSE IsSubsequence(a, Tail(b))

(* C18: find_python_test_functions is monotone in the excluded set.  The   *)
(* names returned for a text and an excluded set are a subsequence of the  *)
(* names the function gives for the same text and any smaller excluded     *)
(* set, and the names it gives for any larger set are a subsequence of     *)
(* the names returned.                                                     *)
C18_MonotoneInExcluded ==
    AtReturn =>
        \A other \in AllExcludedSets :
            /\ exclude_markers \subseteq other =>
                  IsSubsequence(find_python_test_functions(lines, other), test_functions)
            /\ other \subseteq exclude_markers =>
                  IsSubsequence(test_functions, find_python_test_functions(lines, other))

\* a finished scan that returned two names, of which a larger excluded set
\* leaves one
C18_Witness ==
    /\ AtReturn
    /\ exclude_markers = {U}
    /\ Len(test_functions) = 2
    /\ Len(find_python_test_functions(lines, {U, P})) = 1

-----------------------------------------------------------------------------
(* C19: after every line of the forward scan, and in between, the entries  *)
(* of class_markers have strictly increasing indentation levels in list    *)
(* order, so no two share a level, and every stored marker set is          *)
(* non-empty.                                                              *)
C19_EntriesIncreasingNonEmpty ==
    /\ \A a, b \in 1..Len(class_markers) :
          a < b => class_markers[a][1] < class_markers[b][1]
    /\ \A k \in 1..Len(class_markers) : class_markers[k][2] # {}

\* the scan has passed the header of a marked class nested in a marked class:
\* two entries are in the list
C19_Witness ==
    /\ pc = "lines" /\ i = Len(lines)
    /\ Len(class_markers) = 2
    /\ IsClassLine(lines, i)
    /\ class_markers[2] = <<IndentOf(lines, i), MarkersOf(lines, i)>>

-----------------------------------------------------------------------------
\* the names of the lines among the first n that match the test-function
\* pattern and not the class pattern, in line order
RECURSIVE HeaderNames(_, _)
HeaderNames(ls, n) ==
    IF n = 0 THEN <<>>
    ELSE IF IsTestLine(ls, n)
         THEN Append(HeaderNames(ls, n - 1), test_fn_regex(ls[n]).name)
         ELSE HeaderNames(ls, n - 1)

(* C20: the names returned for a file are an order-preserving subsequence  *)
(* of the names of its lines that match the test-function pattern and not  *)
(* the class pattern, so that no name is invented and none is repeated     *)
(* more often than its headers repeat it; with an empty excluded set they  *)
(* are that whole sequence.                                                *)
C20_OutputWithinHeaders ==
    pc = "exit" =>
        \A k \in 1..Len(files) :
            LET headers == IF files[k].readable
                           THEN HeaderNames(files[k].content, Len(files[k].content))
                           ELSE <<>>
            IN  /\ IsSubsequence(ReportedFor(k), headers)
                /\ exclude_markers = {} => ReportedFor(k) = headers

\* a run with nothing excluded that reported a decorated function of one file
\* and the same name twice for the two headers of another
C20_Witness ==
    /\ pc = "exit"
    /\ exclude_markers = {}
    /\ Len(files) = 2
    /\ files[1].readable /\ files[1].content = <<MarkU, DefB>>
    /\ files[2].readable /\ files[2].content = <<DefB, DefB>>
    /\ Len(ReportedFor(1)) = 1
    /\ Len(ReportedFor(2)) = 2

====
